---- MODULE Spec2Model ----
(***************************************************************************)
(* Paste lifecycle of src/src/index.js: the five HTTP handlers (create,    *)
(* read-by-id, list, preview-by-id, delete) over the `pastes` table.       *)
(* Every await on a SQL statement is a point where another request may     *)
(* run, so a handler is one action per SQL statement it issues, together   *)
(* with the synchronous JavaScript that follows the statement. Create also *)
(* reads the clock before its INSERT runs, which is a step of its own.     *)
(***************************************************************************)
EXTENDS Integers, Sequences, FiniteSets, TLC

\* ------------------------------------------------------------------ bounds
MaxTime == 1
MaxRequests == 3
LongLen == 101

\* ------------------------------------------------------- program constants
PreviewLen == 100
ListLimit == 100

Procs == {1, 2}
Ids == {"a1b2c3d4"}
Passwords == {"", "k1", "k2"}
\* The passwords a paste is created with; a reader may also give "k2".
CreatePasswords == {"", "k1"}
Salts == {"s0", "s1", "s2"}
Languages == {"plain"}
Durations == {-1, 0, 1}

Min(a, b) == IF a < b THEN a ELSE b

\* ------------------------------------------------------------------- text
\* TEXT values are sequences of one-character strings.
Chars(n) == [i \in 1..n |-> "x"]
Contents == {Chars(0), Chars(PreviewLen), Chars(LongLen)}

Ellipsis == <<".", ".", ".">>
EncryptedContentPlaceholder ==
    <<"[", "E", "n", "c", "r", "y", "p", "t", "e", "d", " ",
      "C", "o", "n", "t", "e", "n", "t", "]">>
EncryptedPlaceholder ==
    <<"[", "E", "n", "c", "r", "y", "p", "t", "e", "d", "]">>
Garbage == <<"?">>

\* SQL NULL / a JavaScript value that is absent, and a value that is present.
Null == [isNull |-> TRUE, v |-> 0]
Some(x) == [isNull |-> FALSE, v |-> x]

\* ----------------------------------------------------------------- cipher
\* CryptoJS.AES.encrypt(content, password).toString(): an OpenSSL-format
\* text that carries the random salt; the key is derived from password and
\* salt. The model's ciphertext is <<"Salted__", salt, password>> \o content:
\* only decryptContent looks inside it.
encryptContent(content, password, salt) ==
    <<"Salted__", salt, password>> \o content

\* CryptoJS.AES.decrypt(...).toString(CryptoJS.enc.Utf8). With the right
\* password the plaintext comes back. With a wrong one the decrypted bytes
\* are pseudo-random in salt and password: Utf8 decoding throws "Malformed
\* UTF-8 data", or the PKCS7 unpadding leaves no bytes and the result is the
\* empty string, or the bytes happen to be valid UTF-8 and come back as text.
decryptContent(encryptedContent, password) ==
    IF encryptedContent[3] = password
    THEN [threw |-> FALSE,
          value |-> SubSeq(encryptedContent, 4, Len(encryptedContent))]
    ELSE CASE encryptedContent[2] = "s0" -> [threw |-> TRUE, value |-> <<>>]
           [] encryptedContent[2] = "s1" -> [threw |-> FALSE, value |-> <<>>]
           [] OTHER -> [threw |-> FALSE, value |-> Garbage]

\* ------------------------------------------------------------------ state
VARIABLES
    store,      \* the pastes table: id -> row, for the ids that were inserted
    now,        \* the clock behind Date.now() and NOW()
    rq,         \* per connection: the request being served and its response
    nreq,       \* number of requests received so far
    origin,     \* history: id -> the request body its paste was created from
    okReads,    \* history: id -> number of read-by-id requests answered 200
    okDeletes   \* history: id -> number of delete requests answered 200

vars == <<store, now, rq, nreq, origin, okReads, okDeletes>>

\* JavaScript truthiness of an optional number (undefined, null and 0 are falsy).
TruthyNumber(x) == ~x.isNull /\ x.v # 0

\* JavaScript truthiness of a string ("" is falsy; an absent one is "" here).
TruthyString(s) == s # ""

CreateBodies ==
    [content : Contents,
     expiresIn : {Null} \cup {Some(d) : d \in Durations},
     language : Languages,
     burnAfterRead : BOOLEAN,
     isPrivate : BOOLEAN,
     password : CreatePasswords]

\* ------------------------------------------------------------ SQL queries
\* Mutant: a paste is still served at the instant it expires.
NotExpired_inclusive(row, t) == row.expires_at.isNull \/ row.expires_at.v >= t

\* expires_at IS NULL OR expires_at > NOW()
NotExpired(row, t) == row.expires_at.isNull \/ row.expires_at.v > t

\* Mutant: the filter forgets NOT deleted.
LiveIds_expiryOnly(st, t) == {i \in DOMAIN st : NotExpired(st[i], t)}

\* WHERE id = ${id} AND (expires_at IS NULL OR expires_at > NOW()) AND NOT deleted
LiveIds(st, t) ==
    {i \in DOMAIN st : NotExpired(st[i], t) /\ ~st[i].deleted}

\* SELECT * FROM pastes WHERE id = ... AND live: the result set, as a sequence.
SelectLiveById(st, id, t) ==
    IF id \in LiveIds(st, t) THEN <<st[id]>> ELSE <<>>

\* CASE WHEN is_encrypted THEN '[Encrypted Content]'
\*      ELSE SUBSTRING(content, 1, 100) || CASE WHEN LENGTH(content) > 100 THEN '...' ELSE '' END
SummaryContent(row) ==
    IF row.is_encrypted
    THEN EncryptedContentPlaceholder
    ELSE SubSeq(row.content, 1, Min(PreviewLen, Len(row.content)))
         \o (IF Len(row.content) > PreviewLen THEN Ellipsis ELSE <<>>)

\* The row the preview query selects.
PreviewSqlRow(row) ==
    [id |-> row.id, content |-> SummaryContent(row), language |-> row.language,
     expires_at |-> row.expires_at, burn_after_read |-> row.burn_after_read,
     is_private |-> row.is_private, is_encrypted |-> row.is_encrypted,
     views |-> row.views, created_at |-> row.created_at]

SelectPreviewById(st, id, t) ==
    IF id \in LiveIds(st, t) THEN <<PreviewSqlRow(st[id])>> ELSE <<>>

\* The row the list query selects: it has no is_encrypted column.
ListSqlRow(row) ==
    [id |-> row.id, content |-> SummaryContent(row), language |-> row.language,
     created_at |-> row.created_at, views |-> row.views,
     is_private |-> row.is_private, burn_after_read |-> row.burn_after_read,
     expires_at |-> row.expires_at]

\* ORDER BY created_at DESC LIMIT 100 over the live rows: every order of the
\* live ids that is descending in created_at (ties in any order), cut to 100.
SelectLiveList(st, t) ==
    LET live == LiveIds(st, t)
        n == Cardinality(live)
        orders == {s \in [1..n -> live] :
                     /\ \A i, j \in 1..n : i # j => s[i] # s[j]
                     /\ \A i, j \in 1..n :
                          i < j => st[s[i]].created_at >= st[s[j]].created_at}
    IN {[k \in 1..Min(n, ListLimit) |-> ListSqlRow(st[s[k]])] : s \in orders}

\* Mutant: the existence check forgets NOT deleted.
SelectNotDeletedById_any(st, id) ==
    IF id \in DOMAIN st THEN <<[id |-> id]>> ELSE <<>>

\* Mutant: delete looks the paste up with the filter of the read paths.
SelectNotDeletedById_live(st, id) ==
    IF id \in DOMAIN st /\ ~st[id].deleted /\ NotExpired(st[id], now)
    THEN <<[id |-> id]>> ELSE <<>>

\* SELECT id FROM pastes WHERE id = ${id} AND NOT deleted
SelectNotDeletedById(st, id) ==
    IF id \in DOMAIN st /\ ~st[id].deleted THEN <<[id |-> id]>> ELSE <<>>

\* UPDATE pastes SET views = views + 1 WHERE id = ${id}
IncrementViews(st, id) ==
    [i \in DOMAIN st |->
        IF i = id THEN [st[i] EXCEPT !.views = st[i].views + 1] ELSE st[i]]

\* UPDATE pastes SET deleted = true WHERE id = ${id}
SoftDelete(st, id) ==
    [i \in DOMAIN st |->
        IF i = id THEN [st[i] EXCEPT !.deleted = TRUE] ELSE st[i]]

\* INSERT INTO pastes (...) VALUES (...) executed at time t: the values given,
\* and the column defaults created_at = CURRENT_TIMESTAMP, deleted = false.
InsertRow(st, values, t) ==
    LET row == [id |-> values.id, content |-> values.content,
                language |-> values.language, expires_at |-> values.expires_at,
                burn_after_read |-> values.burn_after_read,
                is_private |-> values.is_private,
                is_encrypted |-> values.is_encrypted, views |-> values.views,
                created_at |-> t, deleted |-> FALSE]
    IN [i \in DOMAIN st \cup {row.id} |-> IF i = row.id THEN row ELSE st[i]]

\* ------------------------------------------------------- handler logic
\* const expirationDate = expiresIn ? new Date(Date.now() + expiresIn) : null
ExpirationDate(expiresIn, t) ==
    IF TruthyNumber(expiresIn) THEN Some(t + expiresIn.v) ELSE Null

\* Mutant: the flag is set but the content is stored as given.
NewRow_plaintext(id, body, salt, t) ==
    [id |-> id, content |-> body.content, language |-> body.language,
     expires_at |-> ExpirationDate(body.expiresIn, t),
     burn_after_read |-> body.burnAfterRead, is_private |-> body.isPrivate,
     is_encrypted |-> TruthyString(body.password), views |-> 0]

\* The VALUES create gives its INSERT for a request body, t being the
\* Date.now() the handler read.
NewRow(id, body, salt, t) ==
    LET isEncrypted == TruthyString(body.password)
        finalContent == IF isEncrypted
                        THEN encryptContent(body.content, body.password, salt)
                        ELSE body.content
    IN [id |-> id, content |-> finalContent, language |-> body.language,
        expires_at |-> ExpirationDate(body.expiresIn, t),
        burn_after_read |-> body.burnAfterRead, is_private |-> body.isPrivate,
        is_encrypted |-> isEncrypted, views |-> 0]

\* Mutant: the password check looks at the wrong flag.
PasswordMissing_wrongFlag(paste, password) ==
    paste.is_private /\ ~TruthyString(password)

\* if (paste.is_encrypted && !password)
PasswordMissing(paste, password) ==
    paste.is_encrypted /\ ~TruthyString(password)

\* Mutant: the burn test forgets the burn_after_read flag.
BurnDue_anyPaste(paste) == paste.views >= 1

\* if (paste.burn_after_read && paste.views >= 1), on the row as fetched
BurnDue(paste) == paste.burn_after_read /\ paste.views >= 1

\* paste.is_encrypted of a row of a result set: undefined (falsy) when the
\* query did not select the column.
IsEncryptedOf(r) == "is_encrypted" \in DOMAIN r /\ r.is_encrypted

\* pastes.map(paste => ({...paste, content: ..., isPrivate: ..., ...})) of list
SafePaste(paste) ==
    [id |-> paste.id,
     content |-> IF IsEncryptedOf(paste)
                 THEN EncryptedPlaceholder
                 ELSE paste.content
                      \o (IF Len(paste.content) > PreviewLen THEN Ellipsis ELSE <<>>),
     language |-> paste.language, created_at |-> paste.created_at,
     views |-> paste.views, is_private |-> paste.is_private,
     burn_after_read |-> paste.burn_after_read, expires_at |-> paste.expires_at,
     isPrivate |-> paste.is_private, burnAfterRead |-> paste.burn_after_read,
     createdAt |-> paste.created_at, expiresAt |-> paste.expires_at]

\* const preview = {...paste, isPrivate: ..., ...} of preview
PreviewOf(paste) ==
    [id |-> paste.id, content |-> paste.content, language |-> paste.language,
     expires_at |-> paste.expires_at, burn_after_read |-> paste.burn_after_read,
     is_private |-> paste.is_private, is_encrypted |-> paste.is_encrypted,
     views |-> paste.views, created_at |-> paste.created_at,
     isPrivate |-> paste.is_private, isEncrypted |-> paste.is_encrypted,
     burnAfterRead |-> paste.burn_after_read, createdAt |-> paste.created_at,
     expiresAt |-> paste.expires_at]

\* ------------------------------------------------------------- responses
Response(status, msg, rows) == [status |-> status, msg |-> msg, rows |-> rows]
NoResponse == Response(0, "", <<>>)
NotFound == Response(404, "Paste not found", <<>>)
PasswordRequired == Response(401, "Password required for encrypted paste", <<>>)
InvalidPassword == Response(401, "Invalid password", <<>>)
CreateFailed == Response(500, "Failed to create paste", <<>>)
Deleted == Response(200, "Paste deleted successfully", <<>>)
Ok(rows) == Response(200, "", rows)

\* Mutant: the decrypted text is not put in the paste that is answered.
ReadChecks_keepCiphertext(result, password) ==
    IF result = <<>>
    THEN [done |-> TRUE, res |-> NotFound, paste |-> <<>>]
    ELSE LET paste == result[1]
             dec == decryptContent(paste.content, password)
         IN IF PasswordMissing(paste, password)
            THEN [done |-> TRUE, res |-> PasswordRequired, paste |-> <<>>]
            ELSE IF paste.is_encrypted /\ dec.threw
            THEN [done |-> TRUE, res |-> InvalidPassword, paste |-> <<>>]
            ELSE [done |-> FALSE, res |-> NoResponse, paste |-> <<paste>>]

\* What read-by-id does with the result of its SELECT, up to its first UPDATE:
\* a response, or the paste it goes on with (content decrypted).
ReadChecks(result, password) ==
    IF result = <<>>
    THEN [done |-> TRUE, res |-> NotFound, paste |-> <<>>]
    ELSE LET paste == result[1]
             dec == decryptContent(paste.content, password)
         IN IF PasswordMissing(paste, password)
            THEN [done |-> TRUE, res |-> PasswordRequired, paste |-> <<>>]
            ELSE IF paste.is_encrypted /\ dec.threw
            THEN [done |-> TRUE, res |-> InvalidPassword, paste |-> <<>>]
            ELSE [done |-> FALSE, res |-> NoResponse,
                  paste |-> <<IF paste.is_encrypted
                              THEN [paste EXCEPT !.content = dec.value]
                              ELSE paste>>]

\* What delete does with the result of its SELECT: 404, or on to the UPDATE.
DeleteChecks(result) ==
    IF result = <<>>
    THEN [done |-> TRUE, res |-> NotFound]
    ELSE [done |-> FALSE, res |-> NoResponse]

\* What preview-by-id answers.
PreviewReply(st, id, t) ==
    LET result == SelectPreviewById(st, id, t)
    IN IF result = <<>> THEN NotFound ELSE Ok(<<PreviewOf(result[1])>>)

\* What list can answer.
ListReplies(st, t) ==
    {Ok([k \in 1..Len(pastes) |-> SafePaste(pastes[k])]) :
        pastes \in SelectLiveList(st, t)}

\* ---------------------------------------------------------------- actions
Idle(p) == rq[p].pc = "done"
\* A new request is served on the first connection that is free.
CanStart(p) ==
    /\ Idle(p)
    /\ \A q \in Procs : q < p => ~Idle(q)
    /\ nreq < MaxRequests

Request(n, op, id, password, pc, paste, res) ==
    [n |-> n, op |-> op, id |-> id, password |-> password, pc |-> pc,
     paste |-> paste, res |-> res]

Init ==
    /\ store = <<>>
    /\ now = 0
    /\ rq = [p \in Procs |-> Request(0, "none", "", "", "done", <<>>, NoResponse)]
    /\ nreq = 0
    /\ origin = <<>>
    /\ okReads = [i \in Ids |-> 0]
    /\ okDeletes = [i \in Ids |-> 0]

\* Time passes.
Tick ==
    /\ now < MaxTime
    /\ now' = now + 1
    /\ UNCHANGED <<store, rq, nreq, origin, okReads, okDeletes>>

\* POST /api/pastes, up to the await of the INSERT: the handler draws the id
\* and reads Date.now() for expirationDate. The clock is the only shared
\* state this part reads, so its value is what the handler carries to the
\* INSERT; the request body, which nothing but the INSERT observes, is drawn
\* in CreateInsert.
CreateBegin(p) ==
    /\ CanStart(p)
    /\ nreq' = nreq + 1
    /\ \E id \in Ids :
         rq' = [rq EXCEPT ![p] =
               Request(nreq', "create", id, "", "ins",
                       <<[date_now |-> now]>>, NoResponse)]
    /\ UNCHANGED <<store, now, origin, okReads, okDeletes>>

\* Mutant: the INSERT replaces the row of an id that already exists (an upsert).
CreateInsert_upsert(p) ==
    /\ rq[p].op = "create" /\ rq[p].pc = "ins"
    /\ \E body \in CreateBodies, salt \in Salts :
         /\ ~TruthyString(body.password) => salt = "s0"
         /\ store' = InsertRow(store,
                               NewRow(rq[p].id, body, salt, rq[p].paste[1].date_now),
                               now)
         /\ origin' = [i \in DOMAIN origin \cup {rq[p].id} |->
                         IF i = rq[p].id
                         THEN body
                         ELSE origin[i]]
         /\ rq' = [rq EXCEPT ![p].pc = "done", ![p].paste = <<>>,
                             ![p].res = Ok(<<[id |-> rq[p].id]>>)]
    /\ UNCHANGED <<now, nreq, okReads, okDeletes>>

\* POST /api/pastes, the INSERT and the response. created_at is the time the
\* INSERT runs, expires_at comes from the Date.now() read before the await.
\* randomBytes(4) may repeat an id, and then the primary key rejects the
\* INSERT and the handler answers 500.
CreateInsert(p) ==
    /\ rq[p].op = "create" /\ rq[p].pc = "ins"
    /\ IF rq[p].id \in DOMAIN store
       THEN /\ rq' = [rq EXCEPT ![p].pc = "done", ![p].paste = <<>>,
                                ![p].res = CreateFailed]
            /\ UNCHANGED <<store, origin>>
       ELSE \E body \in CreateBodies, salt \in Salts :
            /\ ~TruthyString(body.password) => salt = "s0"
            /\ store' = InsertRow(store,
                                  NewRow(rq[p].id, body, salt, rq[p].paste[1].date_now),
                                  now)
            /\ origin' = [i \in DOMAIN origin \cup {rq[p].id} |->
                            IF i = rq[p].id
                            THEN body
                            ELSE origin[i]]
            /\ rq' = [rq EXCEPT ![p].pc = "done", ![p].paste = <<>>,
                                ![p].res = Ok(<<[id |-> rq[p].id]>>)]
    /\ UNCHANGED <<now, nreq, okReads, okDeletes>>

\* GET /api/pastes/:id, the SELECT and the checks that follow it.
ReadFetch(p) ==
    /\ CanStart(p)
    /\ \E id \in Ids, password \in Passwords :
         LET c == ReadChecks(SelectLiveById(store, id, now), password)
         IN /\ nreq' = nreq + 1
            /\ rq' = [rq EXCEPT ![p] =
                  Request(nreq', "read", id, password,
                          IF c.done THEN "done" ELSE "inc", c.paste, c.res)]
    /\ UNCHANGED <<store, now, origin, okReads, okDeletes>>

\* Mutant: the increment is conditional on the row being as fetched, and the
\* request that loses the race is answered NotFound.
ReadIncrement_conditional(p) ==
    /\ rq[p].op = "read" /\ rq[p].pc = "inc"
    /\ IF store[rq[p].id].views = rq[p].paste[1].views /\ ~store[rq[p].id].deleted
       THEN /\ store' = IncrementViews(store, rq[p].id)
            /\ IF BurnDue(rq[p].paste[1])
               THEN /\ rq' = [rq EXCEPT ![p].pc = "burn"]
                    /\ UNCHANGED okReads
               ELSE /\ rq' = [rq EXCEPT ![p].pc = "done", ![p].res = Ok(rq[p].paste)]
                    /\ okReads' = [okReads EXCEPT ![rq[p].id] = @ + 1]
       ELSE /\ rq' = [rq EXCEPT ![p].pc = "done", ![p].res = NotFound]
            /\ UNCHANGED <<store, okReads>>
    /\ UNCHANGED <<now, nreq, origin, okDeletes>>

\* Mutant: the UPDATE of views also saves the paste in hand, decrypted content
\* included.
ReadIncrement_saveContent(p) ==
    /\ rq[p].op = "read" /\ rq[p].pc = "inc"
    /\ store' = [IncrementViews(store, rq[p].id)
                   EXCEPT ![rq[p].id].content = rq[p].paste[1].content]
    /\ IF BurnDue(rq[p].paste[1])
       THEN /\ rq' = [rq EXCEPT ![p].pc = "burn"]
            /\ UNCHANGED okReads
       ELSE /\ rq' = [rq EXCEPT ![p].pc = "done", ![p].res = Ok(rq[p].paste)]
            /\ okReads' = [okReads EXCEPT ![rq[p].id] = @ + 1]
    /\ UNCHANGED <<now, nreq, origin, okDeletes>>

\* Mutant: views is written back from the row as fetched (a lost update).
ReadIncrement_lostUpdate(p) ==
    /\ rq[p].op = "read" /\ rq[p].pc = "inc"
    /\ store' = [store EXCEPT ![rq[p].id].views = rq[p].paste[1].views + 1]
    /\ IF BurnDue(rq[p].paste[1])
       THEN /\ rq' = [rq EXCEPT ![p].pc = "burn"]
            /\ UNCHANGED okReads
       ELSE /\ rq' = [rq EXCEPT ![p].pc = "done", ![p].res = Ok(rq[p].paste)]
            /\ okReads' = [okReads EXCEPT ![rq[p].id] = @ + 1]
    /\ UNCHANGED <<now, nreq, origin, okDeletes>>

\* GET /api/pastes/:id, the UPDATE of views; the response when no burn is due.
ReadIncrement(p) ==
    /\ rq[p].op = "read" /\ rq[p].pc = "inc"
    /\ store' = IncrementViews(store, rq[p].id)
    /\ IF BurnDue(rq[p].paste[1])
       THEN /\ rq' = [rq EXCEPT ![p].pc = "burn"]
            /\ UNCHANGED okReads
       ELSE /\ rq' = [rq EXCEPT ![p].pc = "done", ![p].res = Ok(rq[p].paste)]
            /\ okReads' = [okReads EXCEPT ![rq[p].id] = @ + 1]
    /\ UNCHANGED <<now, nreq, origin, okDeletes>>

\* Mutant: the response carries the row as the UPDATE left it.
ReadBurn_answersUpdatedRow(p) ==
    /\ rq[p].op = "read" /\ rq[p].pc = "burn"
    /\ store' = SoftDelete(store, rq[p].id)
    /\ rq' = [rq EXCEPT ![p].pc = "done",
                        ![p].res = Ok(<<[store'[rq[p].id] EXCEPT
                                          !.content = rq[p].paste[1].content]>>)]
    /\ okReads' = [okReads EXCEPT ![rq[p].id] = @ + 1]
    /\ UNCHANGED <<now, nreq, origin, okDeletes>>

\* GET /api/pastes/:id, the UPDATE of deleted and the response.
ReadBurn(p) ==
    /\ rq[p].op = "read" /\ rq[p].pc = "burn"
    /\ store' = SoftDelete(store, rq[p].id)
    /\ rq' = [rq EXCEPT ![p].pc = "done", ![p].res = Ok(rq[p].paste)]
    /\ okReads' = [okReads EXCEPT ![rq[p].id] = @ + 1]
    /\ UNCHANGED <<now, nreq, origin, okDeletes>>

\* GET /api/pastes: one SELECT and the map over its rows.
ListPastes(p) ==
    /\ CanStart(p)
    /\ \E res \in ListReplies(store, now) :
         /\ nreq' = nreq + 1
         /\ rq' = [rq EXCEPT ![p] =
               Request(nreq', "list", "", "", "done", <<>>, res)]
    /\ UNCHANGED <<store, now, origin, okReads, okDeletes>>

\* Mutant: a preview counts as a view.
PreviewPaste_countsView(p) ==
    /\ CanStart(p)
    /\ \E id \in Ids :
         /\ nreq' = nreq + 1
         /\ rq' = [rq EXCEPT ![p] =
               Request(nreq', "preview", id, "", "done", <<>>,
                       PreviewReply(store, id, now))]
         /\ store' = IncrementViews(store, id)
    /\ UNCHANGED <<now, origin, okReads, okDeletes>>

\* GET /api/preview/:id: one SELECT.
PreviewPaste(p) ==
    /\ CanStart(p)
    /\ \E id \in Ids :
         /\ nreq' = nreq + 1
         /\ rq' = [rq EXCEPT ![p] =
               Request(nreq', "preview", id, "", "done", <<>>,
                       PreviewReply(store, id, now))]
    /\ UNCHANGED <<store, now, origin, okReads, okDeletes>>

\* DELETE /api/pastes/:id, the SELECT that checks the paste exists.
DeleteCheck(p) ==
    /\ CanStart(p)
    /\ \E id \in Ids :
         LET c == DeleteChecks(SelectNotDeletedById(store, id))
         IN /\ nreq' = nreq + 1
            /\ rq' = [rq EXCEPT ![p] =
                  Request(nreq', "delete", id, "",
                          IF c.done THEN "done" ELSE "del", <<>>, c.res)]
    /\ UNCHANGED <<store, now, origin, okReads, okDeletes>>

\* DELETE /api/pastes/:id, the UPDATE of deleted and the response.
DeleteUpdate(p) ==
    /\ rq[p].op = "delete" /\ rq[p].pc = "del"
    /\ store' = SoftDelete(store, rq[p].id)
    /\ rq' = [rq EXCEPT ![p].pc = "done", ![p].res = Deleted]
    /\ okDeletes' = [okDeletes EXCEPT ![rq[p].id] = @ + 1]
    /\ UNCHANGED <<now, nreq, origin, okReads>>

Step(p) ==
    \/ CreateBegin(p)
    \/ CreateInsert(p)
    \/ ReadFetch(p)
    \/ ReadIncrement(p)
    \/ ReadBurn(p)
    \/ ListPastes(p)
    \/ PreviewPaste(p)
    \/ DeleteCheck(p)
    \/ DeleteUpdate(p)

\* Requests are served concurrently.
Next == Tick \/ \E p \in Procs : Step(p)

Spec == Init /\ [][Next]_vars

\* Requests are served one after another: a connection moves only while no
\* other connection has a request in progress.
Alone(p) == \A q \in Procs \ {p} : Idle(q)

SeqNext ==
    \/ Tick
    \/ \E p \in Procs : Alone(p) /\ CreateBegin(p)
    \/ \E p \in Procs : Alone(p) /\ CreateInsert(p)
    \/ \E p \in Procs : Alone(p) /\ ReadFetch(p)
    \/ \E p \in Procs : Alone(p) /\ ReadIncrement(p)
    \/ \E p \in Procs : Alone(p) /\ ReadBurn(p)
    \/ \E p \in Procs : Alone(p) /\ ListPastes(p)
    \/ \E p \in Procs : Alone(p) /\ PreviewPaste(p)
    \/ \E p \in Procs : Alone(p) /\ DeleteCheck(p)
    \/ \E p \in Procs : Alone(p) /\ DeleteUpdate(p)

SeqSpec == Init /\ [][SeqNext]_vars

\* ------------------------------------------------------------ properties
\* Connection p receives a new request in this step.
Starts(p, op) == rq'[p].n # rq[p].n /\ rq'[p].op = op

\* Connection p completes the step it was at in this step.
Leaves(p, pc) == rq'[p].n = rq[p].n /\ rq[p].pc = pc /\ rq'[p].pc # pc

\* The liveness rule of the data model: not soft-deleted, and no expiry or
\* an expiry strictly later than t.
IsLive(st, id, t) ==
    /\ id \in DOMAIN st
    /\ st[id].deleted = FALSE
    /\ (st[id].expires_at.isNull \/ st[id].expires_at.v > t)

ReadInFlight(id) ==
    \E p \in Procs : rq[p].op = "read" /\ rq[p].id = id /\ rq[p].pc # "done"

\* C1 (burn-once): with requests served one after another, a paste created
\* with burnAfterRead = true is answered 200 by at most one read-by-id, and
\* once a read-by-id of it has been answered the row has deleted = true.
C1_BurnOnce ==
    \A id \in DOMAIN store :
        origin[id].burnAfterRead =>
            /\ okReads[id] <= 1
            /\ (okReads[id] >= 1 /\ ~ReadInFlight(id)) => store[id].deleted

\* C2 (wrong-password read): a read-by-id of a live encrypted paste with a
\* non-empty passphrase other than the one given at creation ends at once
\* with InvalidPassword and leaves the store unchanged.
C2_WrongPasswordRejected ==
    [][\A p \in Procs :
        LET id == rq'[p].id
        IN (/\ Starts(p, "read")
            /\ IsLive(store, id, now)
            /\ origin[id].password # ""
            /\ rq'[p].password # ""
            /\ rq'[p].password # origin[id].password)
           => /\ rq'[p].pc = "done"
              /\ rq'[p].res = InvalidPassword
              /\ store' = store]_vars

\* C3 (password-required read): a read-by-id of a live encrypted paste with
\* no passphrase ends at once with PasswordRequired and leaves the store
\* unchanged (views not incremented, paste not soft-deleted), burn-after-read
\* pastes included.
C3_PasswordRequired ==
    [][\A p \in Procs :
        LET id == rq'[p].id
        IN (/\ Starts(p, "read")
            /\ IsLive(store, id, now)
            /\ origin[id].password # ""
            /\ rq'[p].password = "")
           => /\ rq'[p].pc = "done"
              /\ rq'[p].res = PasswordRequired
              /\ store' = store]_vars

\* C3 witness: a burn-after-read encrypted paste, live and never viewed,
\* whose read-by-id without passphrase was answered PasswordRequired.
C3_Witness ==
    \E p \in Procs :
        /\ rq[p].op = "read" /\ rq[p].password = ""
        /\ rq[p].res = PasswordRequired
        /\ IsLive(store, rq[p].id, now)
        /\ store[rq[p].id].is_encrypted /\ store[rq[p].id].burn_after_read
        /\ store[rq[p].id].views = 0

\* C4 (correct-password round trip): a read-by-id of a live paste with the
\* non-empty passphrase it was created with goes on with the content given
\* at creation, its UPDATE of views raises the stored views by exactly 1, its
\* other steps leave views alone, and its 200 response carries that content.
C4_RoundTrip ==
    [][\A p \in Procs :
        LET id == rq'[p].id
        IN (/\ rq'[p].op = "read"
            /\ id \in DOMAIN origin
            /\ rq'[p].password # ""
            /\ rq'[p].password = origin[id].password)
           => /\ (Starts(p, "read") /\ IsLive(store, id, now))
                 => /\ rq'[p].pc = "inc"
                    /\ rq'[p].paste[1].content = origin[id].content
                    /\ store' = store
              /\ Leaves(p, "inc")
                 => store'[id].views = store[id].views + 1
              /\ Leaves(p, "burn")
                 => store'[id].views = store[id].views
              /\ rq'[p].res.status = 200
                 => rq'[p].res.rows[1].content = origin[id].content]_vars

\* C4 witness: a read-by-id with the creation passphrase was answered 200
\* with the non-empty content given at creation, and views was raised.
C4_Witness ==
    \E p \in Procs :
        /\ rq[p].op = "read" /\ rq[p].res.status = 200
        /\ rq[p].password # "" /\ rq[p].password = origin[rq[p].id].password
        /\ Len(origin[rq[p].id].content) = LongLen
        /\ rq[p].res.rows[1].content = origin[rq[p].id].content
        /\ store[rq[p].id].views = 1

\* C5 (view count): for a paste with burnAfterRead = false, whenever no
\* read-by-id of it is in flight, the stored views equals the number of
\* read-by-id requests of it that were answered 200, under any interleaving.
C5_ViewCount ==
    \A id \in DOMAIN store :
        (~store[id].burn_after_read /\ ~ReadInFlight(id))
            => store[id].views = okReads[id]

\* C5 witness: two read-by-id requests that both fetched the paste at
\* views = 0 (they overlapped) were both answered 200, and views is 2.
C5_Witness ==
    /\ \A p \in Procs :
        /\ rq[p].op = "read" /\ rq[p].res.status = 200
        /\ rq[p].res.rows[1].views = 0
        /\ rq[p].id \in DOMAIN store
        /\ ~store[rq[p].id].burn_after_read
        /\ store[rq[p].id].views = 2
        /\ okReads[rq[p].id] = 2
    /\ \A p, q \in Procs : rq[p].id = rq[q].id

\* C6 (liveness filter): read-by-id and preview-by-id of an id that is not
\* live at their SELECT (absent, soft-deleted, or expired) answer NotFound,
\* a read-by-id that goes on and a preview that answers 200 had a live
\* paste, list returns live pastes only, and none of these steps changes the
\* store.
C6_LivenessFilter ==
    [][\A p \in Procs :
        LET id == rq'[p].id
        IN /\ Starts(p, "read")
              => /\ store' = store
                 /\ ~IsLive(store, id, now)
                      => (rq'[p].pc = "done" /\ rq'[p].res = NotFound)
                 /\ IsLive(store, id, now) => rq'[p].res # NotFound
           /\ Starts(p, "preview")
              => /\ store' = store
                 /\ IF IsLive(store, id, now)
                    THEN /\ rq'[p].res.status = 200
                         /\ rq'[p].res.rows[1].id = id
                    ELSE rq'[p].res = NotFound
           /\ Starts(p, "list")
              => /\ store' = store
                 /\ {rq'[p].res.rows[k].id : k \in 1..Len(rq'[p].res.rows)}
                      = {i \in Ids : IsLive(store, i, now)}]_vars

\* C6 witness: a paste created with expiresIn = -1, not soft-deleted, whose
\* read-by-id was answered NotFound.
C6_Witness ==
    \E p \in Procs :
        /\ rq[p].op = "read" /\ rq[p].res = NotFound
        /\ rq[p].id \in DOMAIN store
        /\ ~store[rq[p].id].deleted
        /\ origin[rq[p].id].expiresIn = Some(-1)

\* C7 (delete contract): a delete of an id whose row exists with deleted =
\* false, expired or not, goes on to its UPDATE, which answers success and
\* leaves deleted = true; a delete of an absent or soft-deleted id answers
\* NotFound; the check changes nothing; and with requests served one after
\* another at most one delete of an id is answered success.
C7_DeleteContract ==
    [][\A p \in Procs :
        LET id == rq'[p].id
        IN /\ Starts(p, "delete")
              => /\ store' = store
                 /\ IF id \in DOMAIN store /\ store[id].deleted = FALSE
                    THEN rq'[p].pc = "del"
                    ELSE rq'[p].pc = "done" /\ rq'[p].res = NotFound
           /\ Leaves(p, "del")
              => /\ rq'[p].res = Deleted
                 /\ store'[id].deleted = TRUE
                 /\ okDeletes'[id] = 1]_vars

\* C7 witness: a paste created already expired was deleted with success, and
\* a later delete of it was answered NotFound.
C7_Witness ==
    \E p \in Procs :
        /\ rq[p].op = "delete" /\ rq[p].res = NotFound
        /\ rq[p].id \in DOMAIN store
        /\ origin[rq[p].id].expiresIn = Some(-1)
        /\ okDeletes[rq[p].id] = 1
        /\ okReads[rq[p].id] = 0

\* The store without the row of id.
Without(st, id) == [i \in DOMAIN st \ {id} |-> st[i]]

\* read-by-id, preview-by-id and list answer the same on st as on st without id.
SameReads(st, id, t) ==
    /\ \A pw \in Passwords :
          ReadChecks(SelectLiveById(st, id, t), pw)
            = ReadChecks(SelectLiveById(Without(st, id), id, t), pw)
    /\ PreviewReply(st, id, t) = PreviewReply(Without(st, id), id, t)
    /\ ListReplies(st, t) = ListReplies(Without(st, id), t)

\* delete answers the same on st as on st without id.
SameDelete(st, id) ==
    DeleteChecks(SelectNotDeletedById(st, id))
      = DeleteChecks(SelectNotDeletedById(Without(st, id), id))

\* C8 as claimed (not-found indistinguishability): for an id that is
\* expired or soft-deleted, every operation (read-by-id, preview-by-id, list,
\* delete) answers as it does when the id is absent.
C8_Indistinguishable ==
    \A id \in DOMAIN store :
        ~IsLive(store, id, now)
            => SameReads(store, id, now) /\ SameDelete(store, id)

\* C8 as amended: for an id that is expired or soft-deleted, read-by-id,
\* preview-by-id and list answer as they do when the id is absent; delete
\* does so when the id is soft-deleted, and goes on to answer success when
\* the id is expired but not soft-deleted.
C8_IndistinguishableReads ==
    \A id \in DOMAIN store :
        ~IsLive(store, id, now)
            => /\ SameReads(store, id, now)
               /\ store[id].deleted => SameDelete(store, id)
               /\ ~store[id].deleted
                    => ~DeleteChecks(SelectNotDeletedById(store, id)).done

\* C8 witness: an expired paste that is not soft-deleted, whose preview was
\* answered NotFound.
C8_Witness ==
    \E p \in Procs :
        /\ rq[p].op = "preview" /\ rq[p].res = NotFound
        /\ rq[p].id \in DOMAIN store
        /\ ~store[rq[p].id].deleted
        /\ ~IsLive(store, rq[p].id, now)

\* C9 (list summary format): the content list returns for a paste is the
\* content preview-by-id returns for it: the placeholder when encrypted,
\* the content when it has at most 100 characters, else its first 100
\* characters and one ellipsis.
C9_ListEqualsPreview ==
    \A p \in Procs :
        rq[p].op = "list" =>
            \A k \in 1..Len(rq[p].res.rows) :
                LET item == rq[p].res.rows[k]
                    body == origin[item.id]
                IN /\ item.content
                        = PreviewOf(PreviewSqlRow(store[item.id])).content
                   /\ item.content
                        = IF body.password # ""
                          THEN EncryptedContentPlaceholder
                          ELSE IF Len(body.content) <= PreviewLen
                          THEN body.content
                          ELSE SubSeq(body.content, 1, PreviewLen) \o Ellipsis

\* C10 (expiry at creation): the row a create inserts has expiresAt = the
\* time the create read as now + duration for every supplied duration, 0
\* included, and null only when none was supplied; a paste created with a
\* supplied duration of 0 or less is never live.
C10_ExpiresAt ==
    [][/\ \A p \in Procs :
            (rq[p].op = "create" /\ Leaves(p, "ins") /\ rq'[p].res.status = 200)
            => LET id == rq[p].id
                   expiresIn == origin'[id].expiresIn
               IN /\ expiresIn.isNull => store'[id].expires_at = Null
                  /\ ~expiresIn.isNull
                       => store'[id].expires_at
                            = Some(rq[p].paste[1].date_now + expiresIn.v)
       /\ \A id \in DOMAIN store' :
            (~origin'[id].expiresIn.isNull /\ origin'[id].expiresIn.v <= 0)
            => ~IsLive(store', id, now')]_vars

\* C11 (burn-after-read race): a read-by-id that passed its liveness fetch is
\* answered 200 with the paste it fetched whatever other requests did to the
\* row since; so two read-by-id requests of one burn-after-read paste that
\* both fetch it before either's UPDATE both return the content.
C11_FetchedReadIsAnswered ==
    [][\A p \in Procs :
        (rq[p].op = "read" /\ (Leaves(p, "inc") \/ Leaves(p, "burn")))
           => /\ rq'[p].pc \in {"burn", "done"}
              /\ rq'[p].pc = "done" => rq'[p].res = Ok(rq[p].paste)]_vars

\* C11 witness: two read-by-id requests of the same burn-after-read paste
\* both fetched it at views = 0, before either's increment, and both were
\* answered 200 with the content given at creation.
C11_Witness ==
    /\ \A p \in Procs :
        /\ rq[p].op = "read" /\ rq[p].res.status = 200
        /\ rq[p].id \in DOMAIN store
        /\ store[rq[p].id].burn_after_read
        /\ ~store[rq[p].id].is_encrypted
        /\ rq[p].res.rows[1].views = 0
        /\ rq[p].res.rows[1].content = origin[rq[p].id].content
        /\ okReads[rq[p].id] = 2
    /\ \A p, q \in Procs : rq[p].id = rq[q].id

\* C12 (deleted is monotonic): under any interleaving of create, read-by-id,
\* preview, list and delete, no step removes a row or takes the deleted flag
\* of a paste from true back to false.
C12_DeletedMonotonic ==
    [][\A id \in DOMAIN store :
        /\ id \in DOMAIN store'
        /\ store[id].deleted => store'[id].deleted]_vars

\* C12 witness: a soft-deleted paste on whose id a later create was
\* attempted (and refused).
C12_Witness ==
    \E p \in Procs :
        /\ rq[p].op = "create" /\ rq[p].res = CreateFailed
        /\ rq[p].id \in DOMAIN store
        /\ store[rq[p].id].deleted

\* The columns of a row other than views and deleted.
BirthFields(row) ==
    [id |-> row.id, content |-> row.content, language |-> row.language,
     created_at |-> row.created_at, expires_at |-> row.expires_at,
     burn_after_read |-> row.burn_after_read, is_private |-> row.is_private,
     is_encrypted |-> row.is_encrypted]

\* C13 (fields fixed at birth): no step changes the id, content, language,
\* createdAt, expiresAt, burnAfterRead, isPrivate or isEncrypted of a stored
\* paste; the steps of a read-by-id of an encrypted paste leave the stored
\* content as it was, and the content answered is not the stored content.
C13_FieldsFixedAtBirth ==
    [][/\ \A id \in DOMAIN store :
            /\ id \in DOMAIN store'
            /\ BirthFields(store'[id]) = BirthFields(store[id])
       /\ \A p \in Procs :
            (/\ rq[p].op = "read"
             /\ Leaves(p, "inc") \/ Leaves(p, "burn")
             /\ store[rq[p].id].is_encrypted)
               => /\ store'[rq[p].id].content = store[rq[p].id].content
                  /\ rq'[p].pc = "done"
                       => rq'[p].res.rows[1].content # store'[rq[p].id].content]_vars

\* C13 witness: an encrypted paste was read with its passphrase, the answer
\* carries the plaintext given at creation, and the stored content is still
\* the ciphertext.
C13_Witness ==
    \E p \in Procs :
        /\ rq[p].op = "read" /\ rq[p].res.status = 200
        /\ store[rq[p].id].is_encrypted
        /\ rq[p].password = origin[rq[p].id].password
        /\ Len(origin[rq[p].id].content) = PreviewLen
        /\ rq[p].res.rows[1].content = origin[rq[p].id].content
        /\ store[rq[p].id].content[1] = "Salted__"
        /\ store[rq[p].id].views = 1

\* C14 (encryption invariant): a stored paste has isEncrypted = true exactly
\* when a non-empty passphrase was given to its create; the stored content of
\* an encrypted paste is encrypt(content, passphrase) and not the plaintext,
\* that of any other paste is the content given; and a row that appears in a
\* step has views = 0 and deleted = false.
C14_EncryptionInvariant ==
    [][\A id \in DOMAIN store' :
        LET row == store'[id]
            body == origin'[id]
        IN /\ row.is_encrypted = (body.password # "")
           /\ row.is_encrypted
                => /\ \E salt \in Salts :
                        row.content
                          = encryptContent(body.content, body.password, salt)
                   /\ row.content # body.content
           /\ ~row.is_encrypted => row.content = body.content
           /\ id \notin DOMAIN store
                => row.views = 0 /\ row.deleted = FALSE]_vars

\* C14 witness: an encrypted paste created from a 101-character content is
\* stored as ciphertext, has been read, and has views and deleted changed
\* since its creation.
C14_Witness ==
    \E id \in DOMAIN store :
        /\ store[id].is_encrypted
        /\ origin[id].password = "k1"
        /\ Len(origin[id].content) = LongLen
        /\ store[id].content[1] = "Salted__"
        /\ store[id].views = 1
        /\ store[id].deleted

\* C15 (preview and list are side-effect free): a preview-by-id or list
\* request, whatever it answers, leaves the store as it was: no views
\* increment and no soft-delete, burn-after-read pastes included.
C15_PreviewListPure ==
    [][\A p \in Procs :
        (Starts(p, "preview") \/ Starts(p, "list"))
           => /\ store' = store
              /\ rq'[p].pc = "done"]_vars

\* C15 witness: a burn-after-read paste is previewed by the third request
\* served, with no read-by-id or delete answered before, and the preview
\* shows it with views = 0 while the row still has views = 0 and deleted =
\* false.
C15_Witness ==
    \E p \in Procs :
        /\ rq[p].op = "preview" /\ rq[p].res.status = 200
        /\ rq[p].n = 3
        /\ rq[p].res.rows[1].views = 0
        /\ store[rq[p].id].burn_after_read
        /\ store[rq[p].id].views = 0
        /\ ~store[rq[p].id].deleted
        /\ okReads[rq[p].id] = 0 /\ okDeletes[rq[p].id] = 0

\* C16 (the answer of a read-by-id): the paste a read-by-id goes on with is
\* the row as its SELECT found it, content apart, and its 200 response is
\* that paste: it reports deleted = false and the views before the read's own
\* increment, also when the read soft-deletes the paste.
C16_AnswerIsRowAsFetched ==
    [][\A p \in Procs :
        LET id == rq'[p].id
        IN /\ (Starts(p, "read") /\ rq'[p].pc = "inc")
              => /\ [rq'[p].paste[1] EXCEPT !.content = store[id].content]
                      = store[id]
                 /\ rq'[p].paste[1].deleted = FALSE
           /\ (rq'[p].op = "read" /\ rq'[p].res.status = 200)
              => /\ rq'[p].res.rows = rq'[p].paste
                 /\ rq'[p].res.rows[1].deleted = FALSE
           /\ (rq[p].op = "read" /\ rq[p].pc # "done" /\ rq'[p].n = rq[p].n)
              => rq'[p].paste = rq[p].paste]_vars

\* C16 witness: the read-by-id that soft-deleted a burn-after-read paste was
\* answered 200 with deleted = false and the views it fetched, while the
\* row has deleted = true.
C16_Witness ==
    \E p \in Procs :
        /\ rq[p].op = "read" /\ rq[p].res.status = 200
        /\ store[rq[p].id].burn_after_read
        /\ store[rq[p].id].deleted
        /\ okDeletes[rq[p].id] = 0
        /\ rq[p].res.rows[1].deleted = FALSE
        /\ rq[p].res.rows[1].views = 1
        /\ store[rq[p].id].views = 2

\* C17 as claimed: under any interleaving, no step changes the stored views
\* of a paste that has deleted = true.
C17_ViewsFrozenOnceDeleted ==
    [][\A id \in DOMAIN store :
        store[id].deleted => store'[id].views = store[id].views]_vars

\* C17 as amended: a read-by-id that starts when the paste has deleted = true
\* is answered NotFound and never increments views; the stored views of a
\* paste with deleted = true changes only by the single increment of a
\* read-by-id that fetched the paste before it was soft-deleted, and never
\* goes down.
C17_ViewsOnceDeleted ==
    [][\A id \in DOMAIN store :
        store[id].deleted
           => /\ \A p \in Procs :
                   (Starts(p, "read") /\ rq'[p].id = id)
                      => (rq'[p].pc = "done" /\ rq'[p].res = NotFound)
              /\ store'[id].views # store[id].views
                   => /\ store'[id].views = store[id].views + 1
                      /\ \E p \in Procs :
                            /\ Leaves(p, "inc") /\ rq[p].id = id
                            /\ rq[p].paste[1].deleted = FALSE]_vars

\* C17 witness: a read-by-id fetched the paste, a delete then soft-deleted
\* it, and the read's increment was applied to the soft-deleted row.
C17_Witness ==
    \E p \in Procs :
        /\ rq[p].op = "read" /\ rq[p].res.status = 200
        /\ store[rq[p].id].deleted
        /\ ~store[rq[p].id].burn_after_read
        /\ okDeletes[rq[p].id] = 1
        /\ rq[p].n = 2
        /\ store[rq[p].id].views = 1

\* C18 as claimed: under any interleaving, at most one delete request of an
\* id is answered success.
C18_AtMostOneDeleteSucceeds ==
    \A id \in Ids : okDeletes[id] <= 1

\* C18 as amended: a delete request that starts once the paste has deleted
\* = true (so after any delete of the id was answered success) is answered
\* NotFound; a delete goes on to its UPDATE only if the row existed with
\* deleted = false at its check, and each such delete is answered success
\* once; so the deletes of an id answered success are those that passed
\* their check before the first UPDATE was applied, at most one per
\* connection.
C18_DeleteAfterDeleteIsNotFound ==
    [][/\ \A p \in Procs :
            LET id == rq'[p].id
            IN /\ (/\ Starts(p, "delete")
                   /\ id \in DOMAIN store
                   /\ store[id].deleted \/ okDeletes[id] >= 1)
                  => /\ rq'[p].pc = "done"
                     /\ rq'[p].res = NotFound
                     /\ okDeletes' = okDeletes
               /\ (Starts(p, "delete") /\ rq'[p].pc = "del")
                  => /\ id \in DOMAIN store
                     /\ store[id].deleted = FALSE
                     /\ okDeletes[id] = 0
       /\ \A id \in Ids :
            /\ okDeletes'[id] # okDeletes[id]
                 => /\ okDeletes'[id] = okDeletes[id] + 1
                    /\ \E p \in Procs : Leaves(p, "del") /\ rq[p].id = id
            /\ okDeletes'[id] <= Cardinality(Procs)]_vars

\* C18 witness: a paste that never expires was deleted with success, and the
\* delete that came after it, the third request served, was answered
\* NotFound.
C18_Witness ==
    \E p \in Procs :
        /\ rq[p].op = "delete" /\ rq[p].res = NotFound
        /\ rq[p].n = 3
        /\ rq[p].id \in DOMAIN store
        /\ origin[rq[p].id].expiresIn = Null
        /\ store[rq[p].id].deleted
        /\ okDeletes[rq[p].id] = 1

\* C19 (what soft-deletes a paste): the steps of a read-by-id of a paste
\* whose burnAfterRead is false leave its deleted flag as it was, and a
\* paste with deleted = true has burnAfterRead = true or was the target of
\* a delete request that passed its existence check and applied its UPDATE.
C19_DeletedOnlyByBurnOrDelete ==
    [][/\ \A p \in Procs :
            (/\ rq[p].op = "read"
             /\ Leaves(p, "inc") \/ Leaves(p, "burn")
             /\ ~store[rq[p].id].burn_after_read)
               => /\ store'[rq[p].id].deleted = store[rq[p].id].deleted
                  /\ rq'[p].pc = "done"
       /\ \A id \in DOMAIN store' :
            store'[id].deleted
               => store'[id].burn_after_read \/ okDeletes'[id] >= 1]_vars

\* C19 witness: a paste with burnAfterRead = false was read twice with
\* success and is not soft-deleted.
C19_Witness ==
    \E id \in DOMAIN store :
        /\ ~store[id].burn_after_read
        /\ okReads[id] = 2
        /\ store[id].views = 2
        /\ ~store[id].deleted
        /\ \A p \in Procs : Idle(p)

====
